---- MODULE Spec2Model ----
(***************************************************************************)
(* Model of nmmd's dispatchers (src/nmmd/base.py):                         *)
(*   - TypenameDispatcher: convention-based (handle_<name>) resolution in  *)
(*     four tiers (MRO names, builtin name, types.* names, collections.*   *)
(*     names), deduplicated, then the dispatch loop of Dispatcher;         *)
(*   - Dispatcher: the decorator-style registry of (pickled invocation,    *)
(*     method name) pairs and the same dispatch loop.                      *)
(* A dispatcher is a class attribute: every access through an owner        *)
(* object runs __get__, which stores that owner in self.inst.              *)
(***************************************************************************)
EXTENDS Integers, Sequences, FiniteSets, TLC

VARIABLES
    members,        \* attribute names of the owner class (dir(inst))
    inst,           \* self.inst, set by __get__
    built,          \* dispatch_data is cached in the dispatcher's __dict__
    dispatch_data,  \* the cached result of prepare()
    prepare_calls,  \* number of prepare() calls made so far
    first_members,  \* history: members when dispatch_data was built
    registry,       \* Dispatcher.registry: <<invoc, methodname>> pairs
    pc,             \* "idle" | "running" | "done"
    call,           \* the dispatch call in progress / last finished
    cands,          \* what gen_methods yields for this call, in order
    idx,            \* index in cands of the next candidate to apply
    dispatched,     \* local variable of gen_dispatch: "unbound" or "True"
    invoked,        \* log: handlers applied by this call, in order
    returned,       \* log: what each applied handler returned
    out,            \* results produced by gen_dispatch so far, in order
    outcome,        \* "none" | "success" | name of the exception raised
    retval          \* what dispatch() returned (single mode)

vars == <<members, inst, built, dispatch_data, prepare_calls, first_members,
          registry, pc, call, cands, idx, dispatched, invoked, returned,
          out, outcome, retval>>

tvars == <<members, built, dispatch_data, prepare_calls, first_members>>

callvars == <<inst, pc, call, cands, idx, dispatched, invoked, returned,
              out, outcome, retval>>

(***************************************************************************)
(* Bounds.                                                                 *)
(***************************************************************************)
MaxMembers == 3     \* handle_ members an owner class ever has
MaxYield == 2       \* longest generator a handler returns
MaxRegistry == 2    \* registrations on the explicit Dispatcher

Owners == {"X", "Y"}
None == "None"

(***************************************************************************)
(* Runtime types of tokens.  A type has a __name__ and an __mro__.         *)
(* "Shadow" is a user class that is named int but is not an int.           *)
(***************************************************************************)
Tokens == {"int", "bool", "list", "function", "Shadow"}

TypeName(t) == IF t = "Shadow" THEN "int" ELSE t

Mro(t) ==
    CASE t = "bool"   -> <<"bool", "int", "object">>
      [] t = "object" -> <<"object">>
      [] OTHER        -> <<t, "object">>


\* __builtins__.get(typename)
builtins(typename) ==
    IF typename \in {"int", "bool", "list", "object", "str"}
    THEN typename ELSE None

interp_types ==
    {"BuiltinFunctionType", "BuiltinMethodType", "CodeType",
     "DynamicClassAttribute", "FrameType", "FunctionType", "GeneratorType",
     "GetSetDescriptorType", "LambdaType", "MappingProxyType",
     "MemberDescriptorType", "MethodType", "ModuleType", "SimpleNamespace",
     "TracebackType"}

abc_types ==
    {"Hashable", "Iterable", "Iterator", "Sized", "Container", "Callable",
     "Set", "MutableSet", "Mapping", "MutableMapping", "MappingView",
     "KeysView", "ItemsView", "ValuesView", "Sequence", "MutableSequence",
     "ByteString"}

\* getattr(types, name, None): the type object, given by its type id
types_module(name) ==
    CASE name \in {"FunctionType", "LambdaType"} -> "function"
      [] name \in {"BuiltinFunctionType", "BuiltinMethodType"}
                                    -> "builtin_function_or_method"
      [] name = "CodeType"              -> "code"
      [] name = "DynamicClassAttribute" -> "DynamicClassAttribute"
      [] name = "FrameType"             -> "frame"
      [] name = "GeneratorType"         -> "generator"
      [] name = "GetSetDescriptorType"  -> "getset_descriptor"
      [] name = "MappingProxyType"      -> "mappingproxy"
      [] name = "MemberDescriptorType"  -> "member_descriptor"
      [] name = "MethodType"            -> "method"
      [] name = "ModuleType"            -> "module"
      [] name = "SimpleNamespace"       -> "SimpleNamespace"
      [] name = "TracebackType"         -> "traceback"
      [] OTHER                          -> None

\* getattr(collections, name, None): the ABC, whose __name__ is that name
\* (an interpreter whose collections module exports the ABCs, 3.3 to 3.9)
collections_module(name) == IF name \in abc_types THEN name ELSE None

\* the ABCs of collections a token of type t is an instance of
Capabilities(t) ==
    CASE t \in {"int", "bool", "Shadow"} -> {"Hashable"}
      [] t = "function" -> {"Hashable", "Callable"}
      [] t = "list" -> {"Iterable", "Sized", "Container", "Sequence",
                        "MutableSequence"}
      [] OTHER -> {}

\* isinstance(token, basetype): by ancestry, or structurally for an ABC
isinstance(t, basetype) ==
    \/ \E i \in 1..Len(Mro(t)) : Mro(t)[i] = basetype
    \/ basetype \in Capabilities(t)

(***************************************************************************)
(* Attribute names are <<prefix, rest>>; a handler is a bound method.      *)
(***************************************************************************)
method_prefix == "handle_"

Names == {"int", "object", "list", "function", "FunctionType", "Hashable",
          "Iterable", "Sized"}

OtherAttrs == {<<"visit_", "int">>}

BoundMethod(owner, attr) == [self |-> owner, name |-> attr]

HandlerAttrs(ms) == {a \in ms : a[1] = method_prefix}

\* every ordering of a finite set, as sequences
RECURSIVE Orderings(_)
Orderings(S) ==
    IF S = {} THEN {<<>>}
    ELSE UNION {{<<x>> \o o : o \in Orderings(S \ {x})} : x \in S}

RECURSIVE Concat(_)
Concat(ss) == IF ss = <<>> THEN <<>> ELSE Head(ss) \o Concat(Tail(ss))


(***************************************************************************)
(* TypenameDispatcher: the method resolver.                                *)
(***************************************************************************)
\* prepare(): scan dir(inst) for prefixed names, strip the prefix, bind
prepare(owner, ms) ==
    [typename \in {a[2] : a \in HandlerAttrs(ms)} |->
        BoundMethod(owner, <<method_prefix, typename>>)]

\* method_keys: set(self.dispatch_data)
method_keys(data) == DOMAIN data

\* gen_method_keys() walking the ancestry from the farthest type inwards
gen_method_keys_reversed(token) ==
    [i \in 1..Len(Mro(token)) |-> TypeName(Mro(token)[Len(Mro(token)) + 1 - i])]

\* gen_method_keys(): the names of type(token).__mro__, in order
gen_method_keys(token) ==
    [i \in 1..Len(Mro(token)) |-> TypeName(Mro(token)[i])]

\* check_basetype(): getattr(self.inst, prefix + name) for both names
check_basetype(token, basetype_name, basetype, owner, ms) ==
    IF basetype = None THEN <<>>
    ELSE IF ~isinstance(token, basetype) THEN <<>>
    ELSE LET names == <<basetype_name, TypeName(basetype)>>
             found(name) == IF <<method_prefix, name>> \in ms
                            THEN <<BoundMethod(owner, <<method_prefix, name>>)>>
                            ELSE <<>>
         IN  found(names[1]) \o found(names[2])

\* dedupe(): keep the first occurrence of every yielded method
RECURSIVE dedupe_from(_, _)
dedupe_from(gen, seen) ==
    IF gen = <<>> THEN <<>>
    ELSE IF Head(gen) \in seen THEN dedupe_from(Tail(gen), seen)
    ELSE <<Head(gen)>> \o dedupe_from(Tail(gen), seen \cup {Head(gen)})

dedupe(gen) == dedupe_from(gen, {})

\* the undecorated body of gen_methods; interp_order and abc_order are the
\* iteration orders of the two set intersections
raw_gen_methods(token, owner, data, ms, interp_order, abc_order) ==
    LET keys == gen_method_keys(token)
        tier1 == Concat([i \in 1..Len(keys) |->
                    IF keys[i] \in DOMAIN data THEN <<data[keys[i]]>> ELSE <<>>])
        typename == TypeName(token)
        tier2 == check_basetype(token, typename, builtins(typename), owner, ms)
        tier3 == Concat([i \in 1..Len(interp_order) |->
                    check_basetype(token, interp_order[i],
                                   types_module(interp_order[i]), owner, ms)])
        tier4 == Concat([i \in 1..Len(abc_order) |->
                    check_basetype(token, abc_order[i],
                                   collections_module(abc_order[i]), owner, ms)])
    IN  tier1 \o tier2 \o tier3 \o tier4

gen_methods(token, owner, data, ms, interp_order, abc_order) ==
    dedupe(raw_gen_methods(token, owner, data, ms, interp_order, abc_order))

\* a bare method, as TypenameDispatcher.gen_methods yields it
Bare(method) == [istuple |-> FALSE, items |-> <<method>>]

(***************************************************************************)
(* Dispatcher (decorator style): the invocation key codec and registry.    *)
(***************************************************************************)
ExplicitMethods == {"on_cow", "on_pig"}

\* the (args, kwargs) a decorator or a dispatch call is given
Invocations ==
    {[args |-> <<"cow">>, kwargs |-> <<>>],
     [args |-> <<"pig">>, kwargs |-> <<>>],
     [args |-> <<"cow">>, kwargs |-> << <<"k", "pig">> >>],
     [args |-> <<>>, kwargs |-> <<>>]}

\* pickle.dumps((args, kwargs)): a flat stream of opcodes and strings
dumps(args, kwargs) ==
    <<"(">> \o Concat([i \in 1..Len(args) |-> <<"S", args[i]>>])
            \o <<"}">>
            \o Concat([i \in 1..Len(kwargs) |->
                        <<"S", kwargs[i][1], "S", kwargs[i][2]>>])
            \o <<".">>

RECURSIVE load_strings(_, _)
load_strings(p, i) ==
    IF i <= Len(p) /\ p[i] = "S"
    THEN <<p[i + 1]>> \o load_strings(p, i + 2)
    ELSE <<>>

\* pickle.loads(invoc): back to (args, kwargs)
loads(p) ==
    LET args == load_strings(p, 2)
        flat == load_strings(p, 2 + 2 * Len(args) + 1)
    IN  [args |-> args,
         kwargs |-> [i \in 1..(Len(flat) \div 2) |->
                        <<flat[2 * i - 1], flat[2 * i]>>]]

dump_invoc(args, kwargs) == dumps(args, kwargs)

\* Dispatcher.gen_methods(): one (method, args, kwargs) per registry entry
Dispatcher_gen_methods(reg, owner) ==
    [i \in 1..Len(reg) |->
        [istuple |-> TRUE,
         items |-> <<BoundMethod(owner, reg[i][2]),
                     loads(reg[i][1]).args, loads(reg[i][1]).kwargs>>]]

(***************************************************************************)
(* The dispatch loop.                                                      *)
(***************************************************************************)
\* apply_handler(): the call method(*args, **kwargs) it makes
apply_handler(method_data) ==
    LET len_method == Len(method_data.items)
    IN  [method |-> method_data.items[1],
         args   |-> IF method_data.istuple /\ 1 < len_method
                    THEN method_data.items[2] ELSE <<>>,
         kwargs |-> IF method_data.istuple /\ 2 < len_method
                    THEN method_data.items[3] ELSE <<>>]

\* what a handler may do when called: return a plain value, a list, a
\* generator of 0..MaxYield elements, or raise DispatchInterrupt
HandlerResults(invocation) ==
    {[kind |-> "value", n |-> 0, by |-> invocation],
     [kind |-> "list", n |-> MaxYield, by |-> invocation],
     [kind |-> "raise", n |-> 0, by |-> invocation]}
    \cup {[kind |-> "generator", n |-> k, by |-> invocation] : k \in 0..MaxYield}

\* the i-th element a generator result produces
Element(result, i) == [kind |-> "element", n |-> i, by |-> result.by]

\* yield_from_handler() without the GeneratorType test
yield_from_handler_unflattened(result) == <<result>>

\* yield_from_handler(): a generator's elements, or the result itself
yield_from_handler(result) ==
    IF result.kind = "generator"
    THEN [i \in 1..result.n |-> Element(result, i)]
    ELSE <<result>>

Init ==
    /\ members = OtherAttrs
    /\ inst = None
    /\ built = FALSE
    /\ dispatch_data = <<>>
    /\ prepare_calls = 0
    /\ first_members = {}
    /\ registry = <<>>
    /\ pc = "idle"
    /\ call = [kind |-> "none", owner |-> None, mode |-> "none",
               token |-> None, args |-> <<>>, kwargs |-> <<>>]
    /\ cands = <<>>
    /\ idx = 1
    /\ dispatched = "unbound"
    /\ invoked = <<>>
    /\ returned = <<>>
    /\ out = <<>>
    /\ outcome = "none"
    /\ retval = None

\* a handle_<name> member appears on the owner class
AddMember(n) ==
    /\ pc = "idle"
    /\ <<method_prefix, n>> \notin members
    /\ Cardinality(HandlerAttrs(members)) < MaxMembers
    /\ members' = members \cup {<<method_prefix, n>>}
    /\ UNCHANGED <<built, dispatch_data, prepare_calls, first_members,
                   registry, callvars>>

\* the state every dispatch call starts its loop in
StartLoop(c, cs) ==
    /\ inst' = c.owner
    /\ call' = c
    /\ cands' = cs
    /\ pc' = "running"
    /\ idx' = 1
    /\ dispatched' = "unbound"
    /\ invoked' = <<>>
    /\ returned' = <<>>
    /\ out' = <<>>
    /\ outcome' = "none"
    /\ retval' = None

\* owner.dispatch.dispatch(token) / owner.dispatch.gen_dispatch(token) on a
\* TypenameDispatcher: __get__, the cached dispatch_data, gen_methods
TypenameDispatch(owner, token, mode) ==
    /\ pc = "idle"
    /\ built' = TRUE
    /\ dispatch_data' = IF built THEN dispatch_data ELSE prepare(owner, members)
    /\ prepare_calls' = IF built THEN prepare_calls ELSE prepare_calls + 1
    /\ first_members' = IF built THEN first_members ELSE members
    /\ \E interp_order \in Orderings(method_keys(dispatch_data') \cap interp_types) :
       \E abc_order \in Orderings(method_keys(dispatch_data') \cap abc_types) :
          LET ms == gen_methods(token, owner, dispatch_data', members,
                                interp_order, abc_order)
          IN  StartLoop([kind |-> "typename", owner |-> owner, mode |-> mode,
                         token |-> token, args |-> <<token>>, kwargs |-> <<>>],
                        [i \in 1..Len(ms) |-> Bare(ms[i])])
    /\ UNCHANGED <<members, registry>>

\* @dispatch(*args, **kwargs) on a method: Dispatcher.register
Register(methodname, invocation) ==
    /\ pc = "idle"
    /\ Len(registry) < MaxRegistry
    /\ registry' = Append(registry,
           <<dump_invoc(invocation.args, invocation.kwargs), methodname>>)
    /\ UNCHANGED <<tvars, callvars>>

\* owner.dispatch.dispatch(*args, **kwargs) / gen_dispatch on a Dispatcher
ExplicitDispatch(owner, invocation, mode) ==
    /\ pc = "idle"
    /\ StartLoop([kind |-> "explicit", owner |-> owner, mode |-> mode,
                  token |-> None, args |-> invocation.args,
                  kwargs |-> invocation.kwargs],
                 Dispatcher_gen_methods(registry, owner))
    /\ UNCHANGED <<tvars, registry>>

\* one iteration of gen_dispatch's loop, as far as the consumer drives it:
\* dispatch() returns at the first result, a gen_dispatch consumer drains
ApplyNext ==
    /\ pc = "running"
    /\ idx <= Len(cands)
    /\ dispatched' = "True"
    /\ LET invocation == apply_handler(cands[idx])
       IN  \E result \in HandlerResults(invocation) :
            /\ invoked' = Append(invoked, invocation)
            /\ returned' = Append(returned, result)
            /\ IF result.kind = "raise"
               THEN /\ outcome' = "DispatchInterrupt"
                    /\ pc' = "done"
                    /\ UNCHANGED <<out, retval, idx>>
               ELSE LET ys == yield_from_handler(result)
                    IN  IF call.mode = "single" /\ ys # <<>>
                        THEN /\ out' = Append(out, ys[1])
                             /\ retval' = ys[1]
                             /\ outcome' = "success"
                             /\ pc' = "done"
                             /\ UNCHANGED idx
                        ELSE /\ out' = out \o ys
                             /\ idx' = idx + 1
                             /\ UNCHANGED <<retval, outcome, pc>>
    /\ UNCHANGED <<tvars, registry, inst, call, cands>>

\* gen_methods is exhausted: Dispatcher.gen_methods raises DispatchError if
\* it yielded nothing; otherwise gen_dispatch tests its local `dispatched`
Exhausted ==
    /\ pc = "running"
    /\ idx > Len(cands)
    /\ pc' = "done"
    /\ outcome' = CASE call.kind = "explicit" /\ cands = <<>> -> "DispatchError"
                    [] dispatched = "unbound" -> "UnboundLocalError"
                    [] dispatched = "True" -> "success"
                    [] OTHER -> "DispatchError"
    /\ UNCHANGED <<tvars, registry, inst, call, cands, idx, dispatched,
                   invoked, returned, out, retval>>

\* the call is over: its generators and locals are discarded; the
\* dispatcher keeps inst, its cached dispatch_data and its registry
Return ==
    /\ pc = "done"
    /\ pc' = "idle"
    /\ call' = [kind |-> "none", owner |-> None, mode |-> "none",
                token |-> None, args |-> <<>>, kwargs |-> <<>>]
    /\ cands' = <<>>
    /\ idx' = 1
    /\ dispatched' = "unbound"
    /\ invoked' = <<>>
    /\ returned' = <<>>
    /\ out' = <<>>
    /\ outcome' = "none"
    /\ retval' = None
    /\ UNCHANGED <<tvars, registry, inst>>

Next ==
    \/ \E n \in Names : AddMember(n)
    \/ \E owner \in Owners, token \in Tokens, mode \in {"single", "multi"} :
          TypenameDispatch(owner, token, mode)
    \/ ApplyNext
    \/ Exhausted
    \/ Return

Spec == Init /\ [][Next]_vars

NextExplicit ==
    \/ \E m \in ExplicitMethods, i \in Invocations : Register(m, i)
    \/ \E owner \in Owners, i \in Invocations, mode \in {"single", "multi"} :
          ExplicitDispatch(owner, i, mode)
    \/ ApplyNext
    \/ Exhausted
    \/ Return

SpecExplicit == Init /\ [][NextExplicit]_vars

(***************************************************************************)
(* Properties.                                                             *)
(***************************************************************************)
handle(n) == <<method_prefix, n>>

TypenameCall == pc # "idle" /\ call.kind = "typename"

\* C1: in single mode, a token whose exact type name has a handler in the
\* dispatch table gets that handler invoked and no other handler.
C1_ExactHandlerAndNoOther ==
    (TypenameCall /\ pc = "done" /\ call.mode = "single"
        /\ TypeName(call.token) \in DOMAIN dispatch_data)
    => /\ Len(invoked) = 1
       /\ invoked[1].method.name = handle(TypeName(call.token))

\* C2: a token for which resolution yields no candidate makes dispatch and
\* gen_dispatch of TypenameDispatcher fail with DispatchError.
C2_NoMatchRaisesDispatchError ==
    (TypenameCall /\ pc = "done" /\ cands = <<>>) => outcome = "DispatchError"

\* C3: in multi mode no handler (handle_<name> member) is invoked twice by
\* one dispatch call.
C3_EachHandlerAtMostOnce ==
    (TypenameCall /\ call.mode = "multi")
    => \A p, q \in 1..Len(invoked) :
          p # q => invoked[p].method.name # invoked[q].method.name

C5_InterruptEndsAsSuccess ==
    (pc = "done" /\ call.mode = "multi"
        /\ \E i \in 1..Len(returned) : returned[i].kind = "raise")
    => outcome = "success"

\* C6: the explicit Dispatcher invokes a handler only if the key of the
\* call's arguments equals the key that handler was registered with, and a
\* call whose key is not registered invokes nothing and raises DispatchError.
C6_MatchByKeyEquality ==
    (pc # "idle" /\ call.kind = "explicit") =>
        LET key == dump_invoc(call.args, call.kwargs)
        IN  /\ \A i \in 1..Len(invoked) :
                 \E r \in 1..Len(registry) :
                    /\ registry[r][1] = key
                    /\ registry[r][2] = invoked[i].method.name
            /\ (pc = "done" /\ \A r \in 1..Len(registry) : registry[r][1] # key)
                 => (invoked = <<>> /\ outcome = "DispatchError")

\* C7: the dispatch table is built by one prepare() call and a handle_
\* member added after the first dispatch changes no later dispatch: the
\* candidates are those resolved with the members of the first dispatch.
C7_LateRegistrationHasNoEffect ==
    TypenameCall =>
        /\ prepare_calls = 1
        /\ \E interp_order \in Orderings(method_keys(dispatch_data) \cap interp_types) :
           \E abc_order \in Orderings(method_keys(dispatch_data) \cap abc_types) :
              LET ms == gen_methods(call.token, call.owner, dispatch_data,
                                    first_members, interp_order, abc_order)
              IN  cands = [i \in 1..Len(ms) |-> Bare(ms[i])]

\* C8: every handler a dispatch call through an owner invokes is bound to
\* that owner.
C8_BoundToCurrentOwner ==
    TypenameCall =>
        \A i \in 1..Len(invoked) : invoked[i].method.self = call.owner

\* what a returned value adds to the result stream
Contribution(r) ==
    CASE r.kind = "generator" ->
            [k \in 1..r.n |-> [kind |-> "element", n |-> k, by |-> r.by]]
      [] r.kind = "raise" -> <<>>
      [] OTHER -> <<r>>

\* C9: the result stream of a multi-mode call is the concatenation, in
\* candidate order, of what each invoked handler contributes: a generator
\* its elements one by one in order, any other value that value itself.
C9_StreamIsFlattenedConcatenation ==
    (pc # "idle" /\ call.mode = "multi") =>
        /\ Len(returned) = Len(invoked)
        /\ Len(invoked) <= Len(cands)
        /\ \A i \in 1..Len(invoked) :
              /\ invoked[i] = apply_handler(cands[i])
              /\ returned[i].by = invoked[i]
        /\ out = Concat([i \in 1..Len(returned) |-> Contribution(returned[i])])
        /\ outcome = "success" => Len(invoked) = Len(cands)

C9_Witness ==
    /\ pc = "done" /\ call.mode = "multi" /\ outcome = "success"
    /\ Len(returned) = 2
    /\ returned[1].kind = "generator" /\ returned[1].n = 2
    /\ returned[2].kind = "list"
    /\ Len(out) = 3

\* C10: a finished call either succeeded with at least one result (multi
\* mode) or with a value a handler produced (single mode), or it failed with
\* DispatchError or ImplementationError.
C10_AtomicOutcome ==
    pc = "done" =>
        \/ /\ outcome = "success" /\ call.mode = "multi" /\ Len(out) >= 1
        \/ /\ outcome = "success" /\ call.mode = "single"
           /\ retval # None
           /\ \E i \in 1..Len(invoked) : retval.by = invoked[i]
        \/ outcome \in {"DispatchError", "ImplementationError"}

====
